---- MODULE Spec2Model ----
(***************************************************************************)
(* The off-chain price feeds TweleveDataApiPriceFeed and                   *)
(* StatisticsNetherlandsPriceFeed of financial-templates-lib: the          *)
(* throttled update() and the point-in-time resolver getHistoricalPrice(). *)
(*                                                                         *)
(* An update() invocation is an async function: it suspends at             *)
(* `await this.getTime()` and at `await this.networker.getJson(url)`, and  *)
(* runs without interruption between two suspension points.  Several       *)
(* invocations on one instance may be in flight at once.                   *)
(*                                                                         *)
(* JavaScript strings are sequences of one-character strings.  null is     *)
(* Null.  A stored `date` is a tagged value, because the code stores       *)
(* whatever the response carried: a number, a date-time string, NaN or     *)
(* undefined.                                                              *)
(***************************************************************************)
EXTENDS Integers, Sequences, FiniteSets, TLC

VARIABLES
    adapter,                \* which class the instance is
    minTimeBetweenUpdates,  \* constructor parameter
    priceFeedDecimals,      \* constructor parameter
    lookback,               \* constructor parameter
    priceHistory,           \* this.priceHistory
    currentPrice,           \* this.currentPrice
    lastUpdateTime,         \* this.lastUpdateTime
    pc,                     \* per update() invocation: where it is suspended
    currentTime,            \* per update() invocation: its local currentTime
    url,                    \* per update() invocation: the request in flight
    ret,                    \* the last query and what it returned or threw
    last,                   \* history: the last completed update() invocation
    solo,                   \* history: the invocation in flight has run alone
    currentChainID,         \* BeaconOracle: chain ID for this oracle
    prices,                 \* BeaconOracle: encoded price request -> Price
    registered,             \* Registry: the contracts that are registered
    call,                   \* BeaconOracle: the last call and how it ended
    pushed                  \* history: the price each request was resolved with

vars == <<adapter, minTimeBetweenUpdates, priceFeedDecimals, lookback, priceHistory,
          currentPrice, lastUpdateTime, pc, currentTime, url, ret, last, solo,
          currentChainID, prices, registered, call, pushed>>

feed == <<priceHistory, currentPrice, lastUpdateTime>>
config == <<adapter, minTimeBetweenUpdates, priceFeedDecimals, lookback>>

\* the oracle contract, the registry it consults, and what was published
oracle == <<currentChainID, prices, registered, call, pushed>>

\* the price feed instance, its invocations and its history
priceFeed == <<config, feed, pc, currentTime, url, ret, last, solo>>

(***************************************************************************)
(* Bounds of the model.                                                    *)
(***************************************************************************)
\* update() invocations that may be in flight at once
MaxInv == 2
\* longest response array
MaxLen == 3
\* priceFeedDecimals of the modelled instances (prices stay below 2^31)
ModelDecimals == 5
\* the clock value around which the injected clock's readings lie
T0 == 1682200000
\* lookback of the modelled instances: the windows of the clock's readings
\* start on either side of midnight, 1 April 2023
ModelLookback == 1893250

(***************************************************************************)
(* Program constants.                                                      *)
(***************************************************************************)
TwelveDataMinTime == 43200
StatisticsNetherlandsMinTime == 900
PublishDay == 22
PublishHour == 2

TwelveData == "TwelveData"
StatisticsNetherlands == "StatisticsNetherlands"
Adapters == {TwelveData, StatisticsNetherlands}

Null == -1
Throws == -2

Inv == 1..MaxInv

(***************************************************************************)
(* JavaScript strings and numbers.                                         *)
(***************************************************************************)
Digits == {"0", "1", "2", "3", "4", "5", "6", "7", "8", "9"}

DigitVal(c) ==
    CASE c = "0" -> 0 [] c = "1" -> 1 [] c = "2" -> 2 [] c = "3" -> 3
      [] c = "4" -> 4 [] c = "5" -> 5 [] c = "6" -> 6 [] c = "7" -> 7
      [] c = "8" -> 8 [] c = "9" -> 9

RECURSIVE Pow10(_)
Pow10(n) == IF n = 0 THEN 1 ELSE 10 * Pow10(n - 1)

\* the value of a string of decimal digits ("" is 0)
RECURSIVE DigitsVal(_)
DigitsVal(s) ==
    IF Len(s) = 0 THEN 0
    ELSE 10 * DigitsVal(SubSeq(s, 1, Len(s) - 1)) + DigitVal(s[Len(s)])

AllDigits(s) == \A k \in 1..Len(s) : s[k] \in Digits

\* String.prototype.slice(a, b) and substring(a, b) for 0 <= a <= b
Slice(s, a, b) ==
    LET e == IF b < Len(s) THEN b ELSE Len(s)
    IN  IF a >= e THEN <<>> ELSE SubSeq(s, a + 1, e)

\* String.prototype.trim()
RECURSIVE TrimLeft(_)
TrimLeft(s) == IF Len(s) > 0 /\ s[1] = " " THEN TrimLeft(Tail(s)) ELSE s

RECURSIVE TrimRight(_)
TrimRight(s) ==
    IF Len(s) > 0 /\ s[Len(s)] = " " THEN TrimRight(SubSeq(s, 1, Len(s) - 1)) ELSE s

Trim(s) == TrimRight(TrimLeft(s))

\* a field the response record does not carry
Undefined == <<"undefined">>

\* the values a stored `date` can hold
Number(n) == [kind |-> "number", v |-> n]
NaN == [kind |-> "NaN", v |-> 0]
\* a "YYYY-MM-DD HH:mm:ss" string naming the instant n
DateTimeString(n) == [kind |-> "string", v |-> n]
NoDate == [kind |-> "undefined", v |-> 0]

\* a test that takes every date for a valid one
TruthyAlways(d) == TRUE

\* `if (x.date)`: NaN, undefined and 0 are falsy, a non-empty string is truthy
Truthy(d) == (d.kind = "number" /\ d.v # 0) \/ d.kind = "string"

\* a comparison that is not strict
JsLessOrEqual(time, d) == d.kind = "number" /\ time <= d.v

\* `time < d` for a number time: a date-time string converts to NaN, and
\* every comparison with NaN or undefined is false
JsLess(time, d) == d.kind = "number" /\ time < d.v

(***************************************************************************)
(* The fixed-decimal conversion.                                           *)
(***************************************************************************)
DotsOf(s) == {k \in 1..Len(s) : s[k] = "."}

RECURSIVE StripZeros(_)
StripZeros(s) ==
    IF Len(s) > 0 /\ s[Len(s)] = "0" THEN StripZeros(SubSeq(s, 1, Len(s) - 1)) ELSE s

\* parseFixed(value, decimals) of a non-negative decimal string
ParseFixed(value, decimals) ==
    IF Len(value) = 0 \/ \E k \in 1..Len(value) : value[k] \notin Digits \cup {"."}
    THEN Throws
    ELSE IF value = <<".">> \/ Cardinality(DotsOf(value)) > 1
    THEN Throws
    ELSE LET dot == IF DotsOf(value) = {} THEN Len(value) + 1
                    ELSE CHOOSE k \in DotsOf(value) : TRUE
             whole == SubSeq(value, 1, dot - 1)
             fraction == StripZeros(SubSeq(value, dot + 1, Len(value)))
         IN  IF Len(fraction) > decimals THEN Throws
             ELSE DigitsVal(whole) * Pow10(decimals)
                    + DigitsVal(fraction) * Pow10(decimals - Len(fraction))

\* a conversion that scales the whole string
ConvertWholeString(number, decimals) ==
    IF number = Undefined THEN Throws
    ELSE ParseFixed(number, decimals)

\* this.convertPriceFeedDecimals(number)
ConvertPriceFeedDecimals(number, decimals) ==
    IF number = Undefined THEN Throws
    ELSE ParseFixed(Slice(number, 0, decimals), decimals)

(***************************************************************************)
(* Statistics Netherlands: "2023MM01" to the Unix time of its publication. *)
(***************************************************************************)
\* days from 1970-01-01 to the civil date y-m-d (m in 1..12)
DaysFromCivil(y, m, d) ==
    LET yy == IF m <= 2 THEN y - 1 ELSE y
        era == yy \div 400
        yoe == yy - era * 400
        mp == (m + 9) % 12
        doy == ((153 * mp + 2) \div 5) + d - 1
        doe == yoe * 365 + (yoe \div 4) - (yoe \div 100) + doy
    IN  era * 146097 + doe - 719468

\* Date.UTC(year, monthIndex, day, hours, 0, 0) / 1000; monthIndex counts from 0
DateUTC(year, monthIndex, day, hours) ==
    DaysFromCivil(year + (monthIndex \div 12), (monthIndex % 12) + 1, day) * 86400
        + hours * 3600

ConvertFormattedDateToTimestamp(formattedDate) ==
    LET year == Slice(formattedDate, 0, 4)
        monthString == Slice(formattedDate, 6, 8)
    IN  IF AllDigits(year) /\ AllDigits(monthString)
        THEN Number(DateUTC(DigitsVal(year), DigitsVal(monthString), PublishDay, PublishHour))
        ELSE NaN

(***************************************************************************)
(* What the networker may answer.                                          *)
(***************************************************************************)
DigitChar(n) == CHOOSE c \in Digits : DigitVal(c) = n

\* "2023MM01", "2023MM02", ...
PeriodString(m) == <<"2", "0", "2", "3", "M", "M", "0", DigitChar(m)>>

\* the instants of the samples the modelled sources publish
SampleTime(k) == ConvertFormattedDateToTimestamp(PeriodString(k)).v

SampleTimes == {SampleTime(k) : k \in 1..3}

StatisticsNetherlandsIndex(k) ==
    CASE k = 1 -> <<" ", " ", " ", "1", "8", "3", ".", "3">>
      [] k = 2 -> <<" ", " ", " ", "1", "8", "0", ".", "6">>
      [] k = 3 -> <<" ", " ", " ", "1", "7", "8", ".", "9">>
      [] OTHER -> <<" ", " ", " ", "1", "7", "5", ".", "2">>

TwelveDataClose(k) ==
    CASE k = 1 -> <<"1", "1", "6", ".", "6", "4", "0", "0", "0">>
      [] k = 2 -> <<"1", "1", "6", ".", "8", "4", "0", "0", "0">>
      [] k = 3 -> <<"1", "1", "7", ".", "0", "2", "0", "0", "0">>
      [] OTHER -> <<"1", "1", "5", ".", "9", "0", "0", "0", "0">>

\* records of the "value" array of opendata.cbs.nl: three monthly periods and
\* a record whose Periods is no period
StatisticsNetherlandsItems ==
    {[Periods |-> PeriodString(k), PriceIndexOfExistingOwnHomes_1 |-> StatisticsNetherlandsIndex(k)]
        : k \in 1..3}
    \cup {[Periods |-> <<"n", "/", "a">>, PriceIndexOfExistingOwnHomes_1 |-> StatisticsNetherlandsIndex(4)]}

\* a record without the price index
StatisticsNetherlandsBroken ==
    [Periods |-> PeriodString(1), PriceIndexOfExistingOwnHomes_1 |-> Undefined]

\* records of the "values" array of api.twelvedata.com whose datetime is a
\* date-time string (what the API documents) or a number (what priceHistory
\* declares), and a record without datetime
TwelveDataItems(asString) ==
    {[datetime |-> IF asString THEN DateTimeString(SampleTime(k)) ELSE Number(SampleTime(k)),
      close |-> TwelveDataClose(k)] : k \in 1..3}
    \cup {[datetime |-> NoDate, close |-> TwelveDataClose(4)]}

\* a record without close
TwelveDataBroken == [datetime |-> Number(SampleTime(1)), close |-> Undefined]

\* the arrays of at most n records of S, no record twice
Arrays(S, n) ==
    UNION {{a \in [1..k -> S] : \A x, y \in 1..k : x # y => a[x] # a[y]} : k \in 0..n}

\* an array with a broken record after its first record
WithBroken(S, broken) == {<<broken>>} \cup {<<x, broken>> : x \in S}

TwelveDataArrays ==
    Arrays(TwelveDataItems(TRUE), MaxLen) \cup Arrays(TwelveDataItems(FALSE), MaxLen)
        \cup WithBroken(TwelveDataItems(FALSE), TwelveDataBroken)

StatisticsNetherlandsArrays ==
    Arrays(StatisticsNetherlandsItems, MaxLen)
        \cup WithBroken(StatisticsNetherlandsItems, StatisticsNetherlandsBroken)

\* outcomes of `await this.networker.getJson(url)`: the promise rejects, or
\* resolves to null, to an object without the array, or to one with it
NoArrayResponses == {[kind |-> k, items |-> <<>>] : k \in {"reject", "null", "noarray"}}

TwelveDataResponses ==
    NoArrayResponses \cup {[kind |-> "array", items |-> items] : items \in TwelveDataArrays}

StatisticsNetherlandsResponses ==
    NoArrayResponses
        \cup {[kind |-> "array", items |-> items] : items \in StatisticsNetherlandsArrays}

Responses(a) == IF a = TwelveData THEN TwelveDataResponses ELSE StatisticsNetherlandsResponses

TwelveDataOneRecord == {r \in TwelveDataResponses : Len(r.items) <= 1}

StatisticsNetherlandsOneRecord == {r \in StatisticsNetherlandsResponses : Len(r.items) <= 1}

OneRecordResponses(a) ==
    IF a = TwelveData THEN TwelveDataOneRecord ELSE StatisticsNetherlandsOneRecord

(***************************************************************************)
(* The request.  Dates are formatted in the zone of the process, taken to  *)
(* be UTC.                                                                 *)
(***************************************************************************)
\* the civil date of the day that many days after 1970-01-01
CivilFromDays(days) ==
    LET z == days + 719468
        era == z \div 146097
        doe == z - era * 146097
        yoe == (doe - (doe \div 1460) + (doe \div 36524) - (doe \div 146096)) \div 365
        doy == doe - (365 * yoe + (yoe \div 4) - (yoe \div 100))
        mp == (5 * doy + 2) \div 153
        d == doy - ((153 * mp + 2) \div 5) + 1
        m == IF mp < 10 THEN mp + 3 ELSE mp - 9
    IN  [year |-> yoe + era * 400 + (IF m <= 2 THEN 1 ELSE 0), month |-> m, day |-> d]

\* Number.prototype.toString() of a natural number
RECURSIVE NumberToString(_)
NumberToString(n) ==
    IF n < 10 THEN <<DigitChar(n)>> ELSE NumberToString(n \div 10) \o <<DigitChar(n % 10)>>

\* two digits, with a leading zero
TwoDigits(n) == <<DigitChar((n \div 10) % 10), DigitChar(n % 10)>>

\* moment.unix(inputSecond).format("YYYY-MM-DD")
SecondToDate(inputSecond) ==
    LET date == CivilFromDays(inputSecond \div 86400)
    IN  NumberToString(date.year) \o <<"-">> \o TwoDigits(date.month) \o <<"-">> \o TwoDigits(date.day)

SecondToDateTime(inputSecond) == SecondToDate(inputSecond)

\* formatDate(startDate) of a "YYYY-MM-DD" string
FormatDate(startDate) ==
    LET year == NumberToString(DigitsVal(Slice(startDate, 0, 4)))
        padded == <<"0">> \o NumberToString(DigitsVal(Slice(startDate, 5, 7)))
        month == Slice(padded, Len(padded) - 2, Len(padded))
    IN  year \o <<"M", "M">> \o month

\* no request in flight
NoUrl == [start |-> <<>>, end |-> <<>>]

\* "2023-02-10 09:30:00" and "2023-02-13 20:00:00"
TwelveDataStartDate ==
    <<"2", "0", "2", "3", "-", "0", "2", "-", "1", "0", " ",
      "0", "9", ":", "3", "0", ":", "0", "0">>

TwelveDataEndDate ==
    <<"2", "0", "2", "3", "-", "0", "2", "-", "1", "3", " ",
      "2", "0", ":", "0", "0", ":", "0", "0">>

\* "1. Construct URL.": the start_date and end_date of the time_series
\* request; startDateString and endDateString are computed and not used
TwelveDataUrl(t) ==
    LET startLookbackWindow == t - lookback
        startDateString == SecondToDateTime(startLookbackWindow)
        endDateString == SecondToDateTime(t)
    IN  [start |-> TwelveDataStartDate, end |-> TwelveDataEndDate]

\* "1. Construct URL.": the period of `$filter=Periods ge '...'`
StatisticsNetherlandsUrl(t) ==
    LET startLookbackWindow == t - lookback
        dataFetchStartDateString == SecondToDate(startLookbackWindow)
        formattedStartDateString == FormatDate(dataFetchStartDateString)
    IN  [start |-> formattedStartDateString, end |-> <<>>]

Url(t) == IF adapter = TwelveData THEN TwelveDataUrl(t) ELSE StatisticsNetherlandsUrl(t)

(***************************************************************************)
(* update()                                                                *)
(***************************************************************************)
\* the readings of the injected clock: any order, also backwards
ClockVals == {t \in {T0, T0 + minTimeBetweenUpdates - 1, T0 + minTimeBetweenUpdates} : t >= 0}

\* no throttle at all
ThrottledNever(t) == FALSE

\* a throttle whose window is one second short
ThrottledOffByOne(t) ==
    lastUpdateTime # Null /\ lastUpdateTime + minTimeBetweenUpdates > t + 1

\* a throttle that compares the wrong way round
ThrottledReversed(t) ==
    lastUpdateTime # Null /\ lastUpdateTime + minTimeBetweenUpdates < t

\* a throttle that also skips when the window has just elapsed
ThrottledInclusive(t) ==
    lastUpdateTime # Null /\ lastUpdateTime + minTimeBetweenUpdates >= t

\* "Return early if the last call was too recent."
Throttled(t) ==
    lastUpdateTime # Null /\ lastUpdateTime + minTimeBetweenUpdates > t

\* "3. Check responses."
CheckResponse(historyResponse) ==
    historyResponse.kind = "array" /\ Len(historyResponse.items) # 0

\* "4. Parse results."
TwelveDataParse(values) ==
    [k \in 1..Len(values) |->
        [date |-> values[k].datetime,
         closePrice |-> ConvertPriceFeedDecimals(values[k].close, priceFeedDecimals)]]

StatisticsNetherlandsParse(value) ==
    [k \in 1..Len(value) |->
        [date |-> ConvertFormattedDateToTimestamp(value[k].Periods),
         price |-> IF value[k].PriceIndexOfExistingOwnHomes_1 = Undefined THEN Throws
                   ELSE ConvertPriceFeedDecimals(
                            Trim(value[k].PriceIndexOfExistingOwnHomes_1), priceFeedDecimals)]]

ParseResults(items) ==
    IF adapter = TwelveData THEN TwelveDataParse(items) ELSE StatisticsNetherlandsParse(items)

\* the price field of a stored period
PriceOf(pricePeriod) ==
    IF adapter = TwelveData THEN pricePeriod.closePrice ELSE pricePeriod.price

\* a conversion threw while the response was mapped
ParseThrows(items) ==
    LET parsed == ParseResults(items)
    IN  \E k \in 1..Len(items) : PriceOf(parsed[k]) = Throws

\* the update fails: the fetch rejected, the check threw, or the mapping threw
Rejected(historyResponse) ==
    historyResponse.kind = "reject" \/ ~CheckResponse(historyResponse)
        \/ ParseThrows(historyResponse.items)

\* a store that stamps the date of the last record of the response
StoreResponseTime(newHistoricalPricePeriods, t) ==
    /\ currentPrice' = PriceOf(newHistoricalPricePeriods[Len(newHistoricalPricePeriods)])
    /\ priceHistory' = newHistoricalPricePeriods
    /\ lastUpdateTime' =
            IF newHistoricalPricePeriods[Len(newHistoricalPricePeriods)].date.kind = "number"
            THEN newHistoricalPricePeriods[Len(newHistoricalPricePeriods)].date.v
            ELSE t

\* a store that keeps the periods it had and adds the new ones
StoreAppends(newHistoricalPricePeriods, t) ==
    /\ currentPrice' = PriceOf(newHistoricalPricePeriods[Len(newHistoricalPricePeriods)])
    /\ priceHistory' = priceHistory \o newHistoricalPricePeriods
    /\ lastUpdateTime' = t

\* a store that leaves currentPrice as it was
StoreNoPrice(newHistoricalPricePeriods, t) ==
    /\ priceHistory' = newHistoricalPricePeriods
    /\ lastUpdateTime' = t
    /\ UNCHANGED currentPrice

\* a store that leaves the series for later
StoreTorn(newHistoricalPricePeriods, t) ==
    /\ currentPrice' = IF adapter = TwelveData
                       THEN newHistoricalPricePeriods[Len(newHistoricalPricePeriods)].closePrice
                       ELSE newHistoricalPricePeriods[Len(newHistoricalPricePeriods)].price
    /\ lastUpdateTime' = t
    /\ UNCHANGED priceHistory

\* "5. Store results."
Store(newHistoricalPricePeriods, t) ==
    /\ currentPrice' = PriceOf(newHistoricalPricePeriods[Len(newHistoricalPricePeriods)])
    /\ priceHistory' = newHistoricalPricePeriods
    /\ lastUpdateTime' = t

NoRet == [op |-> "none", time |-> 0, verbose |-> FALSE, err |-> "none", price |-> Null]

Idle(i) == pc[i] = "idle"

\* no query result is waiting to be taken by its caller
Taken == ret = NoRet

\* update() is invoked: it runs to `await this.getTime()`
UpdateCall(i) ==
    /\ Taken
    /\ Idle(i)
    /\ \A j \in Inv : j < i => ~Idle(j)
    /\ pc' = [pc EXCEPT ![i] = "getTime"]
    /\ UNCHANGED ret
    /\ UNCHANGED <<oracle, config, feed, currentTime, url>>

\* a skip that stamps lastUpdateTime
UpdateSkipStamps(i, t) ==
    /\ ret = [op |-> "none", time |-> 0, verbose |-> FALSE, err |-> "none", price |-> Null]
    /\ pc[i] = "getTime"
    /\ Throttled(t)
    /\ pc' = [pc EXCEPT ![i] = "idle"]
    /\ lastUpdateTime' = t
    /\ UNCHANGED <<oracle, config, priceHistory, currentPrice, currentTime, url, ret>>

\* getTime() resolves to t and the last update was too recent: return
UpdateSkip(i, t) ==
    /\ Taken
    /\ pc[i] = "getTime"
    /\ Throttled(t)
    /\ pc' = [pc EXCEPT ![i] = "idle"]
    /\ UNCHANGED ret
    /\ UNCHANGED <<oracle, config, feed, currentTime, url>>

\* getTime() resolves to t: the request is sent, and update() suspends at
\* `await this.networker.getJson(url)`
UpdateFetch(i, t) ==
    /\ Taken
    /\ pc[i] = "getTime"
    /\ ~Throttled(t)
    /\ pc' = [pc EXCEPT ![i] = "getJson"]
    /\ currentTime' = [currentTime EXCEPT ![i] = t]
    /\ url' = [url EXCEPT ![i] = Url(t)]
    /\ UNCHANGED ret
    /\ UNCHANGED <<oracle, config, feed>>

\* a failure that has already put a price in place
UpdateFailSetsPrice(i, historyResponse) ==
    /\ Taken
    /\ pc[i] = "getJson"
    /\ Rejected(historyResponse)
    /\ pc' = [pc EXCEPT ![i] = "idle"]
    /\ currentTime' = [currentTime EXCEPT ![i] = 0]
    /\ url' = [url EXCEPT ![i] = NoUrl]
    /\ currentPrice' = 0
    /\ UNCHANGED <<oracle, config, priceHistory, lastUpdateTime, ret>>

\* a failure that starts the invocation over instead of throwing
UpdateFailRetries(i, historyResponse) ==
    /\ Taken
    /\ pc[i] = "getJson"
    /\ Rejected(historyResponse)
    /\ pc' = [pc EXCEPT ![i] = "getTime"]
    /\ currentTime' = [currentTime EXCEPT ![i] = 0]
    /\ url' = [url EXCEPT ![i] = NoUrl]
    /\ UNCHANGED ret
    /\ UNCHANGED <<oracle, config, feed>>

\* a failure after lastUpdateTime was already set
UpdateFailStamps(i, historyResponse) ==
    /\ ret = [op |-> "none", time |-> 0, verbose |-> FALSE, err |-> "none", price |-> Null]
    /\ pc[i] = "getJson"
    /\ Rejected(historyResponse)
    /\ pc' = [pc EXCEPT ![i] = "idle"]
    /\ currentTime' = [currentTime EXCEPT ![i] = 0]
    /\ url' = [url EXCEPT ![i] = NoUrl]
    /\ lastUpdateTime' = currentTime[i]
    /\ UNCHANGED <<oracle, config, priceHistory, currentPrice, ret>>

\* getJson() rejects, or the response is refused: update() throws
UpdateFail(i, historyResponse) ==
    /\ Taken
    /\ pc[i] = "getJson"
    /\ Rejected(historyResponse)
    /\ pc' = [pc EXCEPT ![i] = "idle"]
    /\ currentTime' = [currentTime EXCEPT ![i] = 0]
    /\ url' = [url EXCEPT ![i] = NoUrl]
    /\ UNCHANGED ret
    /\ UNCHANGED <<oracle, config, feed>>

\* getJson() resolves to an accepted response: the results are stored
UpdateStore(i, historyResponse) ==
    /\ Taken
    /\ pc[i] = "getJson"
    /\ ~Rejected(historyResponse)
    /\ Store(ParseResults(historyResponse.items), currentTime[i])
    /\ pc' = [pc EXCEPT ![i] = "idle"]
    /\ currentTime' = [currentTime EXCEPT ![i] = 0]
    /\ url' = [url EXCEPT ![i] = NoUrl]
    /\ UNCHANGED ret
    /\ UNCHANGED <<oracle, config>>

(***************************************************************************)
(* getCurrentPrice() and getHistoricalPrice(time, ancillaryData, verbose)  *)
(***************************************************************************)
Returns(price) == [err |-> "none", price |-> price]
Error(message) == [err |-> message, price |-> Null]

UndefinedLastUpdateTime == "undefined lastUpdateTime"
NoValidPricePeriods == "no valid price periods"
BeforeFirstPricePeriod == "time is before firstPricePeriod"
CurrentPriceIsNull == "currentPrice is null"

\* `x === undefined` for a field that holds null or a number
IsUndefined(x) == FALSE

\* the index of the "first non-null price": the first period with a truthy
\* date; 0 when there is none
FirstPrice ==
    LET valid == {p \in 1..Len(priceHistory) : Truthy(priceHistory[p].date)}
    IN  IF valid = {} THEN 0 ELSE CHOOSE p \in valid : \A q \in valid : p <= q

\* the index of the first period whose date is after time; 0 when there is none
FindIndex(time) ==
    LET after == {p \in 1..Len(priceHistory) : JsLess(time, priceHistory[p].date)}
    IN  IF after = {} THEN 0 ELSE CHOOSE p \in after : \A q \in after : p <= q

\* TwelveData: `match` is the period found
TwelveDataMatch(time) == FindIndex(time)

\* Statistics Netherlands: `match` is the period before the one found, and
\* undefined (0) when nothing was found or the first period was found
StatisticsNetherlandsMatch(time) ==
    LET matchedIndex == FindIndex(time) - 1
    IN  IF matchedIndex > 0 THEN matchedIndex ELSE 0

Match(time) ==
    IF adapter = TwelveData THEN TwelveDataMatch(time) ELSE StatisticsNetherlandsMatch(time)

\* a resolver whose verbose mode answers with the current price
GetHistoricalPriceVerboseCurrent(time, verbose) ==
    IF FirstPrice = 0 THEN Error(NoValidPricePeriods)
    ELSE IF JsLess(time, priceHistory[FirstPrice].date) THEN Error(BeforeFirstPricePeriod)
    ELSE IF Match(time) = 0 \/ verbose
    THEN IF currentPrice = Null THEN Error(CurrentPriceIsNull) ELSE Returns(currentPrice)
    ELSE Returns(PriceOf(priceHistory[Match(time)]))

\* a resolver without the test against the first period
GetHistoricalPriceNoFirstTest(time, verbose) ==
    IF FirstPrice = 0 THEN Error(NoValidPricePeriods)
    ELSE IF Match(time) = 0
    THEN IF currentPrice = Null THEN Error(CurrentPriceIsNull) ELSE Returns(currentPrice)
    ELSE Returns(PriceOf(priceHistory[Match(time)]))

\* verbose only prints
GetHistoricalPrice(time, verbose) ==
    IF IsUndefined(lastUpdateTime) THEN Error(UndefinedLastUpdateTime)
    ELSE IF FirstPrice = 0 THEN Error(NoValidPricePeriods)
    ELSE IF JsLess(time, priceHistory[FirstPrice].date) THEN Error(BeforeFirstPricePeriod)
    ELSE IF Match(time) = 0
    THEN IF currentPrice = Null THEN Error(CurrentPriceIsNull) ELSE Returns(currentPrice)
    ELSE Returns(PriceOf(priceHistory[Match(time)]))

GetCurrentPrice == currentPrice

\* the times asked about: at, just before and just after the samples
QueryTimes == UNION {{t - 1, t, t + 1} : t \in SampleTimes}

QueryCurrentPrice ==
    /\ Taken
    /\ ret' = [op |-> "getCurrentPrice", time |-> 0, verbose |-> FALSE,
               err |-> "none", price |-> GetCurrentPrice]
    /\ UNCHANGED <<oracle, config, feed, pc, currentTime, url>>

QueryHistoricalPrice(time, verbose) ==
    /\ Taken
    /\ ret' = [op |-> "getHistoricalPrice", time |-> time, verbose |-> verbose,
               err |-> GetHistoricalPrice(time, verbose).err,
               price |-> GetHistoricalPrice(time, verbose).price]
    /\ UNCHANGED <<oracle, config, feed, pc, currentTime, url>>

\* getLastUpdateTime(), getLookback(), getPriceFeedDecimals(): `price` holds
\* the value returned
GetLastUpdateTime == lastUpdateTime
GetLookback == lookback
GetPriceFeedDecimals == priceFeedDecimals

\* an accessor that counts its calls in lastUpdateTime
QueryAccessorTouches(op, value) ==
    /\ Taken
    /\ ret' = [op |-> op, time |-> 0, verbose |-> FALSE, err |-> "none", price |-> value]
    /\ lastUpdateTime' = IF lastUpdateTime = Null THEN 0 ELSE lastUpdateTime + 1
    /\ UNCHANGED <<oracle, config, priceHistory, currentPrice, pc, currentTime, url>>

QueryAccessor(op, value) ==
    /\ Taken
    /\ ret' = [op |-> op, time |-> 0, verbose |-> FALSE, err |-> "none", price |-> value]
    /\ UNCHANGED <<oracle, config, feed, pc, currentTime, url>>

QueryLastUpdateTime == QueryAccessor("getLastUpdateTime", GetLastUpdateTime)
QueryLookback == QueryAccessor("getLookback", GetLookback)
QueryPriceFeedDecimals == QueryAccessor("getPriceFeedDecimals", GetPriceFeedDecimals)

\* the caller takes the result of its query
QueryReturn ==
    /\ ~Taken
    /\ ret' = NoRet
    /\ UNCHANGED <<oracle, config, feed, pc, currentTime, url>>

(***************************************************************************)
(* History: the last completed invocation, the records of the response     *)
(* that was last stored, and whether the invocation in flight was invoked  *)
(* with no other in flight and has been alone since.                       *)
(***************************************************************************)
NoLast == [time |-> 0, outcome |-> "none", after |-> "none", items |-> <<>>]

NoTrack == UNCHANGED <<last, solo>>

TrackCall(i) ==
    /\ solo' = \A j \in Inv \ {i} : Idle(j)
    /\ UNCHANGED last

\* `after` is the outcome of the invocation completed just before this one,
\* when this one was invoked after it and ran alone ("none" otherwise)
TrackReturn(t, outcome) ==
    /\ last' = [time |-> t, outcome |-> outcome,
                after |-> IF solo THEN last.outcome ELSE "none",
                items |-> last.items]
    /\ solo' = FALSE

\* the same for an invocation that stores the response historyResponse
TrackStore(t, historyResponse) ==
    /\ last' = [time |-> t, outcome |-> "stored",
                after |-> IF solo THEN last.outcome ELSE "none",
                items |-> historyResponse.items]
    /\ solo' = FALSE

\* only the response stored is recorded
TrackResponse(historyResponse) ==
    /\ last' = [last EXCEPT !.items = historyResponse.items]
    /\ UNCHANGED solo

(***************************************************************************)
(* BeaconOracle.sol                                                        *)
(***************************************************************************)
NeverRequested == "NeverRequested"
Requested == "Requested"
Resolved == "Resolved"
RequestState == {NeverRequested, Requested, Resolved}

\* the chains, callers, requests and prices of the modelled calls
ChainIDs == {1, 2}
Senders == {"financialContract", "stranger"}
PriceRequests ==
    {[identifier |-> "ETH/USD", time |-> SampleTime(1), ancillaryData |-> <<>>],
     [identifier |-> "BTC/USD", time |-> SampleTime(1), ancillaryData |-> <<>>],
     [identifier |-> "ETH/USD", time |-> SampleTime(1), ancillaryData |-> <<1>>]}
PushedPrices == {0, 7}

\* keccak256(abi.encode(...)): one id per (chainID, identifier, time,
\* ancillaryData), no two of them alike
EncodePriceRequest(chainID, identifier, time, ancillaryData) ==
    <<chainID, identifier, time, ancillaryData>>

PriceRequestIds ==
    {EncodePriceRequest(c, r.identifier, r.time, r.ancillaryData) :
        c \in ChainIDs, r \in PriceRequests}

\* a storage slot never written
NoPrice == [state |-> NeverRequested, price |-> 0]

NoCall ==
    [op |-> "none", sender |-> "none", chainID |-> 0, identifier |-> "none", time |-> 0,
     ancillaryData |-> <<>>, price |-> 0, reverted |-> FALSE, has |-> FALSE, value |-> 0,
     emitted |-> "none"]

\* constructor(_finderAddress, _chainID)
BeaconOracleConstructor(chainID) ==
    /\ currentChainID = chainID
    /\ prices = [id \in PriceRequestIds |-> NoPrice]
    /\ registered = {}
    /\ call = NoCall
    /\ pushed = [id \in PriceRequestIds |-> Null]

\* modifier onlyRegisteredContract()
OnlyRegisteredContract(sender) == sender \in registered

\* hasPrice(identifier, time, ancillaryData) called by sender
hasPrice(sender, identifier, time, ancillaryData) ==
    LET priceRequestId == EncodePriceRequest(currentChainID, identifier, time, ancillaryData)
    IN  IF ~OnlyRegisteredContract(sender) THEN [reverted |-> TRUE, has |-> FALSE]
        ELSE [reverted |-> FALSE, has |-> prices[priceRequestId].state = Resolved]

\* a getPrice that takes a price of 0 for no price
getPriceNonZero(sender, identifier, time, ancillaryData) ==
    LET lookup == prices[EncodePriceRequest(currentChainID, identifier, time, ancillaryData)]
    IN  IF ~OnlyRegisteredContract(sender) \/ lookup.state # Resolved \/ lookup.price = 0
        THEN [reverted |-> TRUE, value |-> 0]
        ELSE [reverted |-> FALSE, value |-> lookup.price]

\* getPrice(identifier, time, ancillaryData) called by sender
getPrice(sender, identifier, time, ancillaryData) ==
    LET priceRequestId == EncodePriceRequest(currentChainID, identifier, time, ancillaryData)
        lookup == prices[priceRequestId]
    IN  IF ~OnlyRegisteredContract(sender) THEN [reverted |-> TRUE, value |-> 0]
        ELSE IF lookup.state # Resolved THEN [reverted |-> TRUE, value |-> 0]
        ELSE [reverted |-> FALSE, value |-> lookup.price]

\* the call before has returned
Returned == call = NoCall

\* the registry registers a contract
RegisterContract(sender) ==
    /\ Returned
    /\ sender \notin registered
    /\ registered' = registered \cup {sender}
    /\ UNCHANGED <<currentChainID, prices, call, pushed, priceFeed>>

CallHasPrice(sender, r) ==
    /\ Returned
    /\ call' = [NoCall EXCEPT !.op = "hasPrice", !.sender = sender,
                    !.chainID = currentChainID, !.identifier = r.identifier,
                    !.time = r.time, !.ancillaryData = r.ancillaryData,
                    !.reverted = hasPrice(sender, r.identifier, r.time, r.ancillaryData).reverted,
                    !.has = hasPrice(sender, r.identifier, r.time, r.ancillaryData).has]
    /\ UNCHANGED <<currentChainID, prices, registered, pushed, priceFeed>>

CallGetPrice(sender, r) ==
    /\ Returned
    /\ call' = [NoCall EXCEPT !.op = "getPrice", !.sender = sender,
                    !.chainID = currentChainID, !.identifier = r.identifier,
                    !.time = r.time, !.ancillaryData = r.ancillaryData,
                    !.reverted = getPrice(sender, r.identifier, r.time, r.ancillaryData).reverted,
                    !.value = getPrice(sender, r.identifier, r.time, r.ancillaryData).value]
    /\ UNCHANGED <<currentChainID, prices, registered, pushed, priceFeed>>

\* a _requestPrice that asks again for what was already asked or answered
RequestPriceAgain(chainID, r) ==
    LET priceRequestId == EncodePriceRequest(chainID, r.identifier, r.time, r.ancillaryData)
    IN  /\ Returned
        /\ prices' = [prices EXCEPT ![priceRequestId].state = Requested]
        /\ call' = [NoCall EXCEPT !.op = "_requestPrice", !.chainID = chainID,
                        !.identifier = r.identifier, !.time = r.time,
                        !.ancillaryData = r.ancillaryData, !.emitted = "PriceRequestAdded"]
        /\ UNCHANGED <<currentChainID, registered, pushed, priceFeed>>

\* _requestPrice(chainID, identifier, time, ancillaryData)
RequestPrice(chainID, r) ==
    LET priceRequestId == EncodePriceRequest(chainID, r.identifier, r.time, r.ancillaryData)
        lookup == prices[priceRequestId]
    IN  /\ Returned
        /\ IF lookup.state = NeverRequested
           THEN /\ prices' = [prices EXCEPT ![priceRequestId].state = Requested]
                /\ call' = [NoCall EXCEPT !.op = "_requestPrice", !.chainID = chainID,
                                !.identifier = r.identifier, !.time = r.time,
                                !.ancillaryData = r.ancillaryData,
                                !.emitted = "PriceRequestAdded"]
           ELSE /\ prices' = prices
                /\ call' = [NoCall EXCEPT !.op = "_requestPrice", !.chainID = chainID,
                                !.identifier = r.identifier, !.time = r.time,
                                !.ancillaryData = r.ancillaryData]
        /\ UNCHANGED <<currentChainID, registered, pushed, priceFeed>>

\* a _publishPrice without the require
PublishPriceAnyState(chainID, r, price) ==
    LET priceRequestId == EncodePriceRequest(chainID, r.identifier, r.time, r.ancillaryData)
    IN  /\ Returned
        /\ prices' = [prices EXCEPT ![priceRequestId] = [state |-> Resolved, price |-> price]]
        /\ call' = [NoCall EXCEPT !.op = "_publishPrice", !.chainID = chainID,
                        !.identifier = r.identifier, !.time = r.time,
                        !.ancillaryData = r.ancillaryData, !.price = price,
                        !.emitted = "PushedPrice"]
        /\ pushed' = [pushed EXCEPT ![priceRequestId] = price]
        /\ UNCHANGED <<currentChainID, registered, priceFeed>>

\* a _publishPrice that resolves the request and leaves the price for later
PublishPriceNoPrice(chainID, r, price) ==
    LET priceRequestId == EncodePriceRequest(chainID, r.identifier, r.time, r.ancillaryData)
    IN  /\ Returned
        /\ IF prices[priceRequestId].state = Requested
           THEN /\ prices' = [prices EXCEPT ![priceRequestId].state = Resolved]
                /\ call' = [NoCall EXCEPT !.op = "_publishPrice", !.chainID = chainID,
                                !.identifier = r.identifier, !.time = r.time,
                                !.ancillaryData = r.ancillaryData, !.price = price,
                                !.emitted = "PushedPrice"]
                /\ pushed' = [pushed EXCEPT ![priceRequestId] = price]
           ELSE /\ prices' = prices
                /\ call' = [NoCall EXCEPT !.op = "_publishPrice", !.chainID = chainID,
                                !.identifier = r.identifier, !.time = r.time,
                                !.ancillaryData = r.ancillaryData, !.price = price,
                                !.reverted = TRUE]
                /\ pushed' = pushed
        /\ UNCHANGED <<currentChainID, registered, priceFeed>>

\* _publishPrice(chainID, identifier, time, ancillaryData, price)
PublishPrice(chainID, r, price) ==
    LET priceRequestId == EncodePriceRequest(chainID, r.identifier, r.time, r.ancillaryData)
        lookup == prices[priceRequestId]
    IN  /\ Returned
        /\ IF lookup.state = Requested
           THEN /\ prices' = [prices EXCEPT ![priceRequestId] =
                                [state |-> Resolved, price |-> price]]
                /\ call' = [NoCall EXCEPT !.op = "_publishPrice", !.chainID = chainID,
                                !.identifier = r.identifier, !.time = r.time,
                                !.ancillaryData = r.ancillaryData, !.price = price,
                                !.emitted = "PushedPrice"]
                /\ pushed' = [pushed EXCEPT ![priceRequestId] = price]
           ELSE /\ prices' = prices
                /\ call' = [NoCall EXCEPT !.op = "_publishPrice", !.chainID = chainID,
                                !.identifier = r.identifier, !.time = r.time,
                                !.ancillaryData = r.ancillaryData, !.price = price,
                                !.reverted = TRUE]
                /\ pushed' = pushed
        /\ UNCHANGED <<currentChainID, registered, priceFeed>>

\* the call returns to its caller
CallReturn ==
    /\ ~Returned
    /\ call' = NoCall
    /\ UNCHANGED <<currentChainID, prices, registered, pushed, priceFeed>>

(***************************************************************************)
(* The instance after construction, and its steps.                         *)
(***************************************************************************)
MinTimes(a) == IF a = TwelveData THEN TwelveDataMinTime ELSE StatisticsNetherlandsMinTime

Init ==
    /\ adapter \in Adapters
    /\ minTimeBetweenUpdates = MinTimes(adapter)
    /\ priceFeedDecimals = ModelDecimals
    /\ lookback = ModelLookback
    /\ priceHistory = <<>>
    /\ currentPrice = Null
    /\ lastUpdateTime = Null
    /\ pc = [i \in Inv |-> "idle"]
    /\ currentTime = [i \in Inv |-> 0]
    /\ url = [i \in Inv |-> NoUrl]
    /\ ret = NoRet
    /\ last = NoLast
    /\ solo = FALSE
    /\ BeaconOracleConstructor(1)

\* no update() invocation is in flight
AllIdle == \A i \in Inv : Idle(i)

\* One caller that awaits each update() before it calls update() again, and
\* queries between any two steps.
Next ==
    \/ \E i \in Inv : AllIdle /\ UpdateCall(i) /\ NoTrack
    \/ \E i \in Inv : \E t \in ClockVals : UpdateSkip(i, t) /\ NoTrack
    \/ \E i \in Inv : \E t \in ClockVals : UpdateFetch(i, t) /\ NoTrack
    \/ \E i \in Inv : \E r \in Responses(adapter) : UpdateFail(i, r) /\ NoTrack
    \/ \E i \in Inv : \E r \in Responses(adapter) : UpdateStore(i, r) /\ TrackResponse(r)
    \/ QueryCurrentPrice /\ NoTrack
    \/ \E time \in QueryTimes : \E verbose \in BOOLEAN :
            QueryHistoricalPrice(time, verbose) /\ NoTrack
    \/ QueryLastUpdateTime /\ NoTrack
    \/ QueryLookback /\ NoTrack
    \/ QueryPriceFeedDecimals /\ NoTrack
    \/ QueryReturn /\ NoTrack

Spec == Init /\ [][Next]_vars

\* Callers that invoke update() while earlier invocations are suspended, with
\* the history of the invocations; the responses carry at most one record.
NextAsync ==
    \/ \E i \in Inv : UpdateCall(i) /\ TrackCall(i)
    \/ \E i \in Inv : \E t \in ClockVals : UpdateSkip(i, t) /\ TrackReturn(t, "skipped")
    \/ \E i \in Inv : \E t \in ClockVals : UpdateFetch(i, t) /\ NoTrack
    \/ \E i \in Inv : \E r \in OneRecordResponses(adapter) :
            UpdateFail(i, r) /\ TrackReturn(currentTime[i], "failed")
    \/ \E i \in Inv : \E r \in OneRecordResponses(adapter) :
            UpdateStore(i, r) /\ TrackStore(currentTime[i], r)
    \/ QueryCurrentPrice /\ NoTrack
    \/ QueryReturn /\ NoTrack

SpecAsync == Init /\ [][NextAsync]_vars

(***************************************************************************)
(* Instances of every priceFeedDecimals up to ModelDecimals, fed responses *)
(* of one record whose price is any of a set of raw strings.               *)
(***************************************************************************)
\* raw prices: integer parts of one to three digits, with no fraction, an
\* empty one, or one of up to three digits, and strings that are no decimal
RawPrices ==
    {whole \o fraction :
        whole \in {<<"0">>, <<"1", "8">>, <<"1", "8", "3">>},
        fraction \in {<<>>, <<".">>, <<".", "3">>, <<".", "3", "4">>,
                      <<".", "3", "4", "5">>, <<".", "3", "0">>}}
        \cup {<<".">>, <<".", "5">>, <<"1", ".", "8", ".", "3">>}

TwelveDataRawResponses ==
    {[kind |-> "array",
      items |-> <<[datetime |-> Number(SampleTime(1)), close |-> raw]>>] : raw \in RawPrices}

\* the index is padded with blanks, as the service sends it
StatisticsNetherlandsRawResponses ==
    {[kind |-> "array",
      items |-> <<[Periods |-> PeriodString(1),
                   PriceIndexOfExistingOwnHomes_1 |-> <<" ", " ", " ">> \o raw]>>]
        : raw \in RawPrices}

RawResponses(a) ==
    IF a = TwelveData THEN TwelveDataRawResponses ELSE StatisticsNetherlandsRawResponses

InitConvert ==
    /\ adapter \in Adapters
    /\ minTimeBetweenUpdates = MinTimes(adapter)
    /\ priceFeedDecimals \in 0..ModelDecimals
    /\ lookback = ModelLookback
    /\ priceHistory = <<>>
    /\ currentPrice = Null
    /\ lastUpdateTime = Null
    /\ pc = [i \in Inv |-> "idle"]
    /\ currentTime = [i \in Inv |-> 0]
    /\ url = [i \in Inv |-> NoUrl]
    /\ ret = NoRet
    /\ last = NoLast
    /\ solo = FALSE
    /\ BeaconOracleConstructor(1)

NextConvert ==
    \/ \E i \in Inv : AllIdle /\ UpdateCall(i) /\ TrackCall(i)
    \/ \E i \in Inv : \E t \in ClockVals : UpdateSkip(i, t) /\ TrackReturn(t, "skipped")
    \/ \E i \in Inv : \E t \in ClockVals : UpdateFetch(i, t) /\ NoTrack
    \/ \E i \in Inv : \E r \in RawResponses(adapter) :
            UpdateFail(i, r) /\ TrackReturn(currentTime[i], "failed")
    \/ \E i \in Inv : \E r \in RawResponses(adapter) :
            UpdateStore(i, r) /\ TrackStore(currentTime[i], r)
    \/ QueryCurrentPrice /\ NoTrack
    \/ QueryReturn /\ NoTrack

SpecConvert == InitConvert /\ [][NextConvert]_vars

(***************************************************************************)
(* Instances constructed with minTimeBetweenUpdates 0 or left at its       *)
(* default, with overlapping invocations and their history.                *)
(***************************************************************************)
InitThrottle ==
    /\ adapter \in Adapters
    /\ minTimeBetweenUpdates \in {0, MinTimes(adapter)}
    /\ priceFeedDecimals = ModelDecimals
    /\ lookback = ModelLookback
    /\ priceHistory = <<>>
    /\ currentPrice = Null
    /\ lastUpdateTime = Null
    /\ pc = [i \in Inv |-> "idle"]
    /\ currentTime = [i \in Inv |-> 0]
    /\ url = [i \in Inv |-> NoUrl]
    /\ ret = NoRet
    /\ last = NoLast
    /\ solo = FALSE
    /\ BeaconOracleConstructor(1)

SpecThrottle == InitThrottle /\ [][NextAsync]_vars

(***************************************************************************)
(* The two adapters constructed with the same minTimeBetweenUpdates, fed   *)
(* by one caller that awaits each update(), and queried.                   *)
(***************************************************************************)
InitAdapters ==
    /\ adapter \in Adapters
    /\ minTimeBetweenUpdates = StatisticsNetherlandsMinTime
    /\ priceFeedDecimals = ModelDecimals
    /\ lookback = ModelLookback
    /\ priceHistory = <<>>
    /\ currentPrice = Null
    /\ lastUpdateTime = Null
    /\ pc = [i \in Inv |-> "idle"]
    /\ currentTime = [i \in Inv |-> 0]
    /\ url = [i \in Inv |-> NoUrl]
    /\ ret = NoRet
    /\ last = NoLast
    /\ solo = FALSE
    /\ BeaconOracleConstructor(1)

NextAdapters ==
    \/ \E i \in Inv : AllIdle /\ UpdateCall(i) /\ TrackCall(i)
    \/ \E i \in Inv : \E t \in ClockVals : UpdateSkip(i, t) /\ TrackReturn(t, "skipped")
    \/ \E i \in Inv : \E t \in ClockVals : UpdateFetch(i, t) /\ NoTrack
    \/ \E i \in Inv : \E r \in Responses(adapter) :
            UpdateFail(i, r) /\ TrackReturn(currentTime[i], "failed")
    \/ \E i \in Inv : \E r \in Responses(adapter) :
            UpdateStore(i, r) /\ TrackStore(currentTime[i], r)
    \/ \E time \in QueryTimes : QueryHistoricalPrice(time, FALSE) /\ NoTrack
    \/ QueryReturn /\ NoTrack

SpecAdapters == InitAdapters /\ [][NextAdapters]_vars

(***************************************************************************)
(* The oracle as deployed on either chain, called by registered and        *)
(* unregistered contracts and by the contract that extends it.             *)
(***************************************************************************)
InitBeacon ==
    /\ adapter = TwelveData
    /\ minTimeBetweenUpdates = MinTimes(adapter)
    /\ priceFeedDecimals = ModelDecimals
    /\ lookback = ModelLookback
    /\ priceHistory = <<>>
    /\ currentPrice = Null
    /\ lastUpdateTime = Null
    /\ pc = [i \in Inv |-> "idle"]
    /\ currentTime = [i \in Inv |-> 0]
    /\ url = [i \in Inv |-> NoUrl]
    /\ ret = NoRet
    /\ last = NoLast
    /\ solo = FALSE
    /\ \E chainID \in ChainIDs : BeaconOracleConstructor(chainID)

NextBeacon ==
    \/ \E sender \in Senders : RegisterContract(sender)
    \/ \E sender \in Senders : \E r \in PriceRequests : CallHasPrice(sender, r)
    \/ \E sender \in Senders : \E r \in PriceRequests : CallGetPrice(sender, r)
    \/ \E chainID \in ChainIDs : \E r \in PriceRequests : RequestPrice(chainID, r)
    \/ \E chainID \in ChainIDs : \E r \in PriceRequests : \E price \in PushedPrices :
            PublishPrice(chainID, r, price)
    \/ CallReturn

SpecBeacon == InitBeacon /\ [][NextBeacon]_vars

(***************************************************************************)
(* Notions the properties below are stated in.                             *)
(***************************************************************************)
Abs(x) == IF x < 0 THEN -x ELSE x

\* the stored periods that carry a timestamp, and the instant each names
Dated == {p \in 1..Len(priceHistory) : priceHistory[p].date.kind \in {"number", "string"}}
Instant(p) == priceHistory[p].date.v

NewestTime == CHOOSE t \in {Instant(p) : p \in Dated} : \A q \in Dated : Instant(q) <= t
EarliestTime == CHOOSE t \in {Instant(p) : p \in Dated} : \A q \in Dated : t <= Instant(q)
Newest == CHOOSE p \in Dated : Instant(p) = NewestTime

\* fetches an invocation with this outcome has sent
Fetches(outcome) == IF outcome \in {"failed", "stored"} THEN 1 ELSE 0

\* invocation i, invoked alone after the last completed invocation, resumes
\* from `await this.getTime()` in this step
SecondReads(i) ==
    solo /\ last.outcome # "none" /\ pc[i] = "getTime" /\ pc'[i] # "getTime"

\* the clock value invocation i reads in this step
TimeRead(i) == IF pc'[i] = "getJson" THEN currentTime'[i] ELSE last'.time

Queried == ret.op = "getHistoricalPrice"

C2_ThrottledIsNoOp ==
    [][\A i \in Inv :
        (pc[i] = "getTime" /\ pc'[i] # "getTime"
            /\ lastUpdateTime # Null
            /\ lastUpdateTime + minTimeBetweenUpdates > TimeRead(i))
            => /\ pc'[i] = "idle"
               /\ last'.outcome = "skipped"
               /\ UNCHANGED feed]_vars

\* an invocation was skipped at the last second of the throttle window
C2_Witness ==
    /\ last.outcome = "skipped"
    /\ lastUpdateTime # Null
    /\ last.time = lastUpdateTime + minTimeBetweenUpdates - 1
    /\ priceHistory # <<>>

(***************************************************************************)
(* C3.  An invocation whose fetch rejects, or whose response is null, has  *)
(* no array, has an empty array or cannot be mapped, fails, and            *)
(* priceHistory, currentPrice and lastUpdateTime keep their values:        *)
(* getCurrentPrice() returns what it returned before.                      *)
(***************************************************************************)
C3_FailedUpdateKeepsState ==
    [][\A i \in Inv :
        (pc[i] = "getJson" /\ pc'[i] = "idle" /\ last'.outcome = "failed")
            => /\ UNCHANGED feed
               /\ GetCurrentPrice' = GetCurrentPrice]_vars

\* an invocation failed after an earlier one had stored its results
C3_Witness ==
    /\ last.outcome = "failed"
    /\ lastUpdateTime # Null
    /\ currentPrice # Null
    /\ priceHistory # <<>>

(***************************************************************************)
(* C4.  As claimed: after a successful update(), getCurrentPrice() equals  *)
(* the price of the newest sample, the one with the greatest timestamp, of *)
(* the stored series.                                                      *)
(***************************************************************************)
C4_CurrentPriceIsNewest ==
    (lastUpdateTime # Null /\ Dated # {})
        => GetCurrentPrice = PriceOf(priceHistory[Newest])

(***************************************************************************)
(* C5.  priceHistory, currentPrice and lastUpdateTime are replaced in one  *)
(* step: every step that changes one of them is the resumption of one      *)
(* invocation from its fetch, and sets all three from that invocation's    *)
(* response and clock value, whatever other invocations are suspended.     *)
(***************************************************************************)
C5_ReplacedInOneStep ==
    [][(priceHistory' # priceHistory \/ currentPrice' # currentPrice
            \/ lastUpdateTime' # lastUpdateTime)
        => \E i \in Inv : \E r \in OneRecordResponses(adapter) :
            /\ pc[i] = "getJson" /\ pc'[i] = "idle"
            /\ CheckResponse(r)
            /\ priceHistory' = ParseResults(r.items)
            /\ currentPrice' = PriceOf(priceHistory'[Len(priceHistory')])
            /\ lastUpdateTime' = currentTime[i]]_vars

\* a reader reads the price an invocation stored while another invocation is
\* still suspended at its fetch
C5_Witness ==
    /\ ret.op = "getCurrentPrice"
    /\ ret.price # Null
    /\ last.outcome = "stored"
    /\ \E j \in Inv : pc[j] = "getJson" /\ currentTime[j] # lastUpdateTime

(***************************************************************************)
(* C6.  As claimed (TwelveData, rule A): for every stored series and every *)
(* time strictly between the timestamps of two consecutive samples,        *)
(* getHistoricalPrice(time) returns the price of the later of the two.     *)
(***************************************************************************)
C6_RuleAReturnsNext ==
    (adapter = TwelveData /\ Queried)
        => \A p \in Dated :
            (p + 1 \in Dated /\ Instant(p) < ret.time /\ ret.time < Instant(p + 1))
                => ret.err = "none" /\ ret.price = PriceOf(priceHistory[p + 1])

(***************************************************************************)
(* C7.  As claimed (Statistics Netherlands, rule B): for every stored      *)
(* series and every time strictly between the timestamps of two            *)
(* consecutive samples, getHistoricalPrice(time) returns the price of the  *)
(* earlier of the two.                                                     *)
(***************************************************************************)
C7_RuleBReturnsPrevious ==
    (adapter = StatisticsNetherlands /\ Queried)
        => \A p \in Dated :
            (p + 1 \in Dated /\ Instant(p) < ret.time /\ ret.time < Instant(p + 1))
                => ret.err = "none" /\ ret.price = PriceOf(priceHistory[p])

(***************************************************************************)
(* C8.  After a successful update(), for every time at or after the        *)
(* newest sample's timestamp, getHistoricalPrice(time) succeeds and        *)
(* returns what getCurrentPrice() returns.                                 *)
(***************************************************************************)
C8_AtOrAfterNewestIsCurrent ==
    (Queried /\ lastUpdateTime # Null /\ Dated # {} /\ ret.time >= NewestTime)
        => ret.err = "none" /\ ret.price = GetCurrentPrice

\* such a query was answered on a series of several samples whose newest
\* sample is not the last one stored
C8_Witness ==
    /\ Queried
    /\ Dated # {}
    /\ ret.time >= NewestTime
    /\ Len(priceHistory) > 1
    /\ Newest # Len(priceHistory)
    /\ ret.err = "none"
    /\ ret.price = currentPrice

(***************************************************************************)
(* C9.  As claimed: getHistoricalPrice(time) fails with the                *)
(* before-the-lookback-window error exactly when time is less than the     *)
(* timestamp of the earliest sample of the stored series.                  *)
(***************************************************************************)
C9_BeforeEarliestExactly ==
    (Queried /\ Dated # {})
        => (ret.err = BeforeFirstPricePeriod <=> ret.time < EarliestTime)

(***************************************************************************)
(* C10.  As claimed: getHistoricalPrice(time) on a feed that has never     *)
(* updated (lastUpdateTime is null) fails with the error of the            *)
(* lastUpdateTime check.                                                   *)
(***************************************************************************)
C10_NeverUpdatedIsUninitialized ==
    (Queried /\ lastUpdateTime = Null) => ret.err = UndefinedLastUpdateTime

(***************************************************************************)
(* C11.  Until the first update() has stored its results, and after any    *)
(* number of skipped or failed invocations, getCurrentPrice() returns null *)
(* and raises no error.                                                    *)
(***************************************************************************)
C11_NoPriceUntilFirstSuccess ==
    (ret.op = "getCurrentPrice" /\ lastUpdateTime = Null)
        => ret.err = "none" /\ ret.price = Null

\* getCurrentPrice() answered null after an invocation failed on an instance
\* that has never stored
C11_Witness ==
    /\ ret.op = "getCurrentPrice"
    /\ ret.price = Null
    /\ last.outcome = "failed"
    /\ lastUpdateTime = Null

\* invocation i, invoked with no other in flight and alone since, stores in
\* this step
StoresAlone(i) ==
    solo /\ pc[i] = "getJson" /\ pc'[i] = "idle" /\ last'.outcome = "stored"

(***************************************************************************)
(* C12.  When update() is called again and again, each call after the      *)
(* earlier ones have returned, lastUpdateTime never decreases from one     *)
(* storing invocation to the next, whatever the clock reads (also          *)
(* backwards) and however the fetches end.                                 *)
(***************************************************************************)
C12_LastUpdateTimeNeverDecreases ==
    [][\A i \in Inv :
        (StoresAlone(i) /\ lastUpdateTime # Null)
            => lastUpdateTime' >= lastUpdateTime]_vars

\* a second invocation in a row has stored, on a clock that also reads
\* earlier values
C12_Witness ==
    /\ last.outcome = "stored"
    /\ last.after = "stored"
    /\ lastUpdateTime = last.time
    /\ \E t \in ClockVals : t < lastUpdateTime

C14_LastUpdateTimeIsTimeRead ==
    [][\A i \in Inv :
        (pc[i] = "getJson" /\ pc'[i] = "idle" /\ last'.outcome = "stored")
            => lastUpdateTime' = currentTime[i]]_vars

\* an invocation has stored a dated sample while another invocation, which
\* read a later clock value, is still suspended at its fetch
C14_Witness ==
    /\ last.outcome = "stored"
    /\ lastUpdateTime = last.time
    /\ Dated # {}
    /\ \A p \in Dated : Instant(p) # lastUpdateTime
    /\ \E j \in Inv : pc[j] = "getJson" /\ currentTime[j] > lastUpdateTime

(***************************************************************************)
(* C15.  An invocation that is not throttled, the very first one included, *)
(* sends exactly one fetch and a throttled one sends none: from            *)
(* `await this.getTime()` it goes on to the fetch exactly when it is not   *)
(* throttled, and from the fetch it only returns or throws, so a failed    *)
(* fetch or a refused response is not retried inside the invocation.       *)
(***************************************************************************)
C15_OneFetchPerInvocation ==
    [][\A i \in Inv :
        /\ (pc[i] = "getTime" /\ pc'[i] # "getTime")
            => IF lastUpdateTime # Null
                    /\ lastUpdateTime + minTimeBetweenUpdates > TimeRead(i)
               THEN pc'[i] = "idle" /\ last'.outcome = "skipped"
               ELSE pc'[i] = "getJson"
        /\ (pc[i] = "getJson" /\ pc'[i] # "getJson")
            => pc'[i] = "idle" /\ last'.outcome \in {"failed", "stored"}
        /\ (pc[i] = "idle" /\ pc'[i] # "idle") => pc'[i] = "getTime"]_vars

\* the first invocation of an instance has fetched, failed and returned
C15_Witness ==
    /\ last.outcome = "failed"
    /\ last.after = "none"
    /\ lastUpdateTime = Null
    /\ AllIdle
    /\ Taken

\* the source's encoding of the start of the lookback window of clock value t
StartBound(t) ==
    IF adapter = TwelveData THEN SecondToDateTime(t - lookback)
    ELSE FormatDate(SecondToDate(t - lookback))

(***************************************************************************)
(* C16.  As claimed: for both adapters the request of an invocation that   *)
(* is not throttled starts at the source's encoding of                     *)
(* currentTime - lookback, so two invocations whose windows start in       *)
(* different periods send different requests.                              *)
(***************************************************************************)
C16_RequestFollowsWindow ==
    \A i \in Inv : pc[i] = "getJson" =>
        /\ url[i].start = StartBound(currentTime[i])
        /\ \A j \in Inv :
            (pc[j] = "getJson" /\ StartBound(currentTime[j]) # StartBound(currentTime[i]))
                => url[j] # url[i]

(***************************************************************************)
(* C17.  As claimed: in every reachable state of either adapter the stored *)
(* series is ordered oldest to newest: for all indices p < q the timestamp *)
(* of period p is at most that of period q.                                *)
(***************************************************************************)
C17_SeriesIsOrdered ==
    \A p, q \in Dated : p < q => Instant(p) <= Instant(q)

\* the period a record of a response is mapped to: the adapter's date of the
\* record and its price scaled to priceFeedDecimals
Mapped(record) ==
    IF adapter = TwelveData
    THEN [date |-> record.datetime,
          closePrice |-> ParseFixed(Slice(record.close, 0, priceFeedDecimals),
                                    priceFeedDecimals)]
    ELSE [date |-> ConvertFormattedDateToTimestamp(record.Periods),
          price |-> ParseFixed(Slice(Trim(record.PriceIndexOfExistingOwnHomes_1),
                                     0, priceFeedDecimals),
                               priceFeedDecimals)]

(***************************************************************************)
(* C18.  The stored series is at all times exactly the mapping of the      *)
(* response that was last stored: one period per record, in the order of   *)
(* the response, nothing kept from or merged with the series before, and   *)
(* nothing but a storing update() changes it.                              *)
(***************************************************************************)
C18_SeriesIsLastResponse ==
    /\ Len(priceHistory) = Len(last.items)
    /\ \A k \in 1..Len(priceHistory) : priceHistory[k] = Mapped(last.items[k])

\* the series is the mapping of a stored response of several records that
\* are not in the order of their dates
C18_Witness ==
    /\ lastUpdateTime # Null
    /\ Len(priceHistory) > 1
    /\ Len(last.items) > 1
    /\ \E p, q \in Dated : p < q /\ Instant(p) > Instant(q)

(***************************************************************************)
(* C19.  getHistoricalPrice never fails with the error of a null           *)
(* currentPrice: whenever the series holds a period with a valid date,     *)
(* currentPrice is not null.                                               *)
(***************************************************************************)
C19_CurrentPriceIsThere ==
    /\ ret.err # CurrentPriceIsNull
    /\ Dated # {} => currentPrice # Null

\* a query that found no period after its time has returned currentPrice
C19_Witness ==
    /\ Queried
    /\ lastUpdateTime # Null
    /\ \A p \in 1..Len(priceHistory) : ~(ret.time < Instant(p))
    /\ Dated # {}
    /\ ret.err = "none"
    /\ ret.price = currentPrice
    /\ currentPrice # Null

RawPrice(k) ==
    IF adapter = TwelveData THEN last.items[k].close
    ELSE Trim(last.items[k].PriceIndexOfExistingOwnHomes_1)

\* the digits before and after the decimal point of a decimal string
WholeDigits(s) == IF DotsOf(s) = {} THEN s ELSE SubSeq(s, 1, (CHOOSE k \in DotsOf(s) : TRUE) - 1)
FractionDigits(s) ==
    IF DotsOf(s) = {} THEN <<>> ELSE SubSeq(s, (CHOOSE k \in DotsOf(s) : TRUE) + 1, Len(s))

\* a string of digits with at most one decimal point, and a digit
IsDecimal(s) ==
    /\ \A k \in 1..Len(s) : s[k] \in Digits \cup {"."}
    /\ Cardinality(DotsOf(s)) <= 1
    /\ \E k \in 1..Len(s) : s[k] \in Digits

\* the decimal value of s times 10^decimals, for a fraction of at most
\* `decimals` digits
Scaled(s, decimals) ==
    DigitsVal(WholeDigits(s)) * Pow10(decimals)
        + DigitsVal(FractionDigits(s)) * Pow10(decimals - Len(FractionDigits(s)))

(***************************************************************************)
(* C21.  The conversion cuts the raw decimal string to its first           *)
(* priceFeedDecimals characters before it scales: the stored price is the  *)
(* value of that prefix times 10^priceFeedDecimals, and "183.345" with     *)
(* priceFeedDecimals = 2 is stored as 1800.                                *)
(***************************************************************************)
C21_TruncatesToCharacters ==
    \A k \in 1..Len(priceHistory) :
        /\ PriceOf(priceHistory[k])
                = Scaled(Slice(RawPrice(k), 0, priceFeedDecimals), priceFeedDecimals)
        /\ (RawPrice(k) = <<"1", "8", "3", ".", "3", "4", "5">> /\ priceFeedDecimals = 2)
                => PriceOf(priceHistory[k]) = 1800

\* "183.345" was stored by an instance with priceFeedDecimals = 2
C21_Witness ==
    /\ priceFeedDecimals = 2
    /\ Len(priceHistory) = 1
    /\ RawPrice(1) = <<"1", "8", "3", ".", "3", "4", "5">>
    /\ currentPrice = 1800

(***************************************************************************)
(* C22.  As claimed: for every raw decimal string with no more fractional  *)
(* digits than priceFeedDecimals, the stored price is exactly the decimal  *)
(* value times 10^priceFeedDecimals.                                       *)
(***************************************************************************)
C22_ExactWhenFractionFits ==
    \A k \in 1..Len(priceHistory) :
        (IsDecimal(RawPrice(k)) /\ Len(FractionDigits(RawPrice(k))) <= priceFeedDecimals)
            => PriceOf(priceHistory[k]) = Scaled(RawPrice(k), priceFeedDecimals)

(***************************************************************************)
(* C23.  Every query (getCurrentPrice, getHistoricalPrice whether it       *)
(* returns or throws, getLastUpdateTime, getLookback,                      *)
(* getPriceFeedDecimals) leaves the series, currentPrice, lastUpdateTime   *)
(* and the configuration as they were, and getLookback and                 *)
(* getPriceFeedDecimals return the values given at construction whatever   *)
(* has happened since.                                                     *)
(***************************************************************************)
C23_QueriesChangeNothing ==
    [][(ret'.op # "none" /\ ret' # ret)
        => /\ priceHistory' = priceHistory
           /\ currentPrice' = currentPrice
           /\ lastUpdateTime' = lastUpdateTime
           /\ adapter' = adapter
           /\ minTimeBetweenUpdates' = minTimeBetweenUpdates
           /\ priceFeedDecimals' = priceFeedDecimals
           /\ lookback' = lookback
           /\ (ret'.op = "getLastUpdateTime" => ret'.price = lastUpdateTime)
           /\ (ret'.op = "getLookback" => ret'.price = ModelLookback)
           /\ (ret'.op = "getPriceFeedDecimals" => ret'.price = ModelDecimals)]_vars

\* getLookback() answered on an instance that has stored a response
C23_Witness ==
    /\ ret.op = "getLookback"
    /\ ret.price = ModelLookback
    /\ lastUpdateTime # Null
    /\ priceHistory # <<>>

FirstIsAfter ==
    /\ Len(priceHistory) > 0
    /\ priceHistory[1].date.kind = "number"
    /\ ret.time < priceHistory[1].date.v

(***************************************************************************)
(* C25.  As claimed (Statistics Netherlands, rule B): whenever the first   *)
(* period strictly after time is at index 0 of the series,                 *)
(* getHistoricalPrice(time) returns currentPrice.                          *)
(***************************************************************************)
C25_IndexZeroIsCurrentPrice ==
    (adapter = StatisticsNetherlands /\ Queried /\ FirstIsAfter)
        => ret.err = "none" /\ ret.price = currentPrice

(***************************************************************************)
(* C25, amended.  Statistics Netherlands: whenever the first period        *)
(* strictly after time is at index 0 of the series, getHistoricalPrice     *)
(* fails with the error of a time before the first period; the fall-back   *)
(* to currentPrice for a match at index 0 is never taken.                  *)
(***************************************************************************)
C25_IndexZeroIsBeforeFirst ==
    (adapter = StatisticsNetherlands /\ Queried /\ FirstIsAfter)
        => ret.err = BeforeFirstPricePeriod /\ ret.price = Null

\* such a query was answered on a series of several periods
C25_Witness ==
    /\ adapter = StatisticsNetherlands
    /\ Queried
    /\ FirstIsAfter
    /\ Len(priceHistory) > 1
    /\ ret.err = BeforeFirstPricePeriod

(***************************************************************************)
(* BeaconOracle: notions of the properties below                           *)
(***************************************************************************)
\* the id under which call was looked up or stored
CallId == EncodePriceRequest(call.chainID, call.identifier, call.time, call.ancillaryData)

\* the same for the call that the step makes
NextCallId ==
    EncodePriceRequest(call'.chainID, call'.identifier, call'.time, call'.ancillaryData)

\* the step is a call of op
Calls(op) == call = NoCall /\ call'.op = op

\* the request of id resolved under another chain than the oracle's
OtherChain(id) == <<CHOOSE c \in ChainIDs : c # id[1], id[2], id[3], id[4]>>

\* C26: whenever hasPrice answers true to a registered caller, getPrice for
\* the same request and the same caller does not revert
C26_HasPriceThenGetPriceSucceeds ==
    \A sender \in registered : \A r \in PriceRequests :
        (/\ ~hasPrice(sender, r.identifier, r.time, r.ancillaryData).reverted
         /\ hasPrice(sender, r.identifier, r.time, r.ancillaryData).has)
            => ~getPrice(sender, r.identifier, r.time, r.ancillaryData).reverted

\* hasPrice has just answered true to a registered caller, for a request
\* resolved with the price 0
C26_Witness ==
    /\ call.op = "hasPrice"
    /\ call.sender \in registered
    /\ ~call.reverted
    /\ call.has
    /\ prices[CallId] = [state |-> Resolved, price |-> 0]

\* C27: getPrice reverts unless the request is Resolved under currentChainID,
\* and a getPrice that succeeds returns the price that was passed to the
\* _publishPrice call that resolved the request
C27_GetPriceIsResolvedPrice ==
    /\ \A sender \in Senders : \A r \in PriceRequests :
        LET id == EncodePriceRequest(currentChainID, r.identifier, r.time, r.ancillaryData)
            got == getPrice(sender, r.identifier, r.time, r.ancillaryData)
        IN  /\ prices[id].state # Resolved => got.reverted
            /\ ~got.reverted => (pushed[id] # Null /\ got.value = pushed[id])
    /\ (call.op = "getPrice" /\ ~call.reverted)
        => /\ call.chainID = currentChainID
           /\ prices[CallId].state = Resolved
           /\ call.value = pushed[CallId]

\* getPrice has returned 7 for a request that was resolved with 7 under the
\* oracle's chain and with 0 under the other chain
C27_Witness ==
    /\ call.op = "getPrice"
    /\ ~call.reverted
    /\ call.value = 7
    /\ pushed[CallId] = 7
    /\ prices[OtherChain(CallId)] = [state |-> Resolved, price |-> 0]

\* C28: _requestPrice reverts whenever the request is already Requested or
\* Resolved
C28_RequestAgainReverts ==
    [][(Calls("_requestPrice") /\ prices[NextCallId].state \in {Requested, Resolved})
        => call'.reverted]_vars

\* C29: _publishPrice succeeds only from Requested; from NeverRequested and
\* from Resolved it reverts and leaves the stored state and price as they were
C29_PublishOnlyFromRequested ==
    [][Calls("_publishPrice")
        => IF prices[NextCallId].state = Requested
           THEN /\ ~call'.reverted
                /\ prices' = [prices EXCEPT ![NextCallId] =
                                [state |-> Resolved, price |-> call'.price]]
           ELSE /\ call'.reverted
                /\ prices' = prices]_vars

\* _publishPrice has reverted for a request that is already resolved, with a
\* price other than the one stored
C29_Witness ==
    /\ call.op = "_publishPrice"
    /\ call.reverted
    /\ prices[CallId] = [state |-> Resolved, price |-> 7]
    /\ call.price = 0

\* C30: the state of a request only moves NeverRequested -> Requested ->
\* Resolved, one step at a time and never backwards, and a Resolved request
\* keeps its state and its price for ever
C30_StatesOnlyAdvance ==
    [][\A id \in PriceRequestIds :
        /\ \/ prices'[id].state = prices[id].state
           \/ prices[id].state = NeverRequested /\ prices'[id].state = Requested
           \/ prices[id].state = Requested /\ prices'[id].state = Resolved
        /\ prices[id].state = Resolved => prices'[id] = prices[id]]_vars

\* _requestPrice has been called for a request that is resolved, and the
\* request is still resolved with the price it had
C30_Witness ==
    /\ call.op = "_requestPrice"
    /\ prices[CallId].state = Resolved
    /\ prices[CallId].price = pushed[CallId]
    /\ pushed[CallId] = 7

(***************************************************************************)
(* Overlapping update() invocations                                        *)
(***************************************************************************)
\* the invocations suspended at `await this.networker.getJson(url)`
InFlight == {i \in Inv : pc[i] = "getJson"}

\* invocation i resumes from getJson() and stores in this step
Commits(i) == pc[i] = "getJson" /\ pc'[i] = "idle" /\ last'.outcome = "stored"

\* C31: however update() invocations overlap, at most one network fetch is
\* in flight for the instance at any time
C31_OneFetchInFlight == Cardinality(InFlight) <= 1

\* C32: at every commit, also of invocations that overlap, lastUpdateTime
\* does not decrease: what an invocation with a later clock value stored is
\* not overwritten by one that read an earlier clock value
C32_CommitsNeverGoBack ==
    [][\A i \in Inv :
        (Commits(i) /\ lastUpdateTime # Null)
            => lastUpdateTime' >= lastUpdateTime]_vars

\* C33: lastUpdateTime is absent exactly when currentPrice is absent and
\* exactly when the series is empty
C33_InitialisedTogether ==
    /\ lastUpdateTime = Null <=> currentPrice = Null
    /\ currentPrice = Null <=> priceHistory = <<>>

\* all three fields are set, and a query on them has failed
C33_Witness ==
    /\ lastUpdateTime # Null
    /\ currentPrice # Null
    /\ priceHistory # <<>>
    /\ Queried
    /\ ret.err # "none"

\* invocation i resumes from `await this.getTime()` in this step
Reads(i) == pc[i] = "getTime" /\ pc'[i] # "getTime"

\* C34: the throttle comparison is strict.  An invocation that reads exactly
\* lastUpdateTime + minTimeBetweenUpdates is not skipped and sends a fetch,
\* one that reads a second less is skipped, and with minTimeBetweenUpdates 0
\* no invocation is skipped unless the clock reads less than lastUpdateTime
C34_ThrottleIsStrict ==
    [][\A i \in Inv : Reads(i) =>
        /\ (lastUpdateTime # Null /\ TimeRead(i) = lastUpdateTime + minTimeBetweenUpdates)
            => (pc'[i] = "getJson" /\ url'[i] # NoUrl)
        /\ (lastUpdateTime # Null /\ TimeRead(i) = lastUpdateTime + minTimeBetweenUpdates - 1)
            => (pc'[i] = "idle" /\ last'.outcome = "skipped" /\ url'[i] = NoUrl)
        /\ (minTimeBetweenUpdates = 0 /\ (lastUpdateTime = Null \/ TimeRead(i) >= lastUpdateTime))
            => pc'[i] = "getJson"]_vars

\* with minTimeBetweenUpdates 0, an invocation that followed a storing one
\* and read the clock value stored has sent a fetch
C34_Witness ==
    /\ minTimeBetweenUpdates = 0
    /\ last.outcome = "stored"
    /\ lastUpdateTime = last.time
    /\ \E i \in Inv : pc[i] = "getJson" /\ currentTime[i] = lastUpdateTime /\ url[i] # NoUrl

(***************************************************************************)
(* Queries at the timestamp of a stored sample                             *)
(***************************************************************************)
\* the stored samples whose timestamp is the time asked about, when a later
\* sample is stored
AtSample == {p \in Dated : Queried /\ Instant(p) = ret.time /\ Instant(p) < NewestTime}

\* the sample that follows sample p in time
Following(p) ==
    CHOOSE q \in Dated :
        /\ Instant(q) > Instant(p)
        /\ \A r \in Dated : Instant(r) > Instant(p) => Instant(q) <= Instant(r)

\* C35: asked about exactly the timestamp of a stored sample that is not the
\* newest, rule B (Statistics Netherlands) returns the price of that sample
\* and rule A (TwelveData) the price of the sample that follows it
C35_AtSampleTimestamp ==
    \A p \in AtSample :
        /\ ret.err = "none"
        /\ adapter = StatisticsNetherlands => ret.price = PriceOf(priceHistory[p])
        /\ adapter = TwelveData => ret.price = PriceOf(priceHistory[Following(p)])

(***************************************************************************)
(* The two adapters side by side: what each decides is set against one     *)
(* table that does not name the adapter.                                   *)
(***************************************************************************)
\* the price field of a record of either source
PriceField(item) ==
    IF "close" \in DOMAIN item THEN item.close ELSE item.PriceIndexOfExistingOwnHomes_1

\* the fetch outcomes on which update() fails: the fetch rejects, no array or
\* an empty one comes back, or a record has no price
Refused(historyResponse) ==
    \/ historyResponse.kind # "array"
    \/ Len(historyResponse.items) = 0
    \/ \E k \in 1..Len(historyResponse.items) : PriceField(historyResponse.items[k]) = Undefined

\* the first stored sample that has a timestamp
FirstDated == CHOOSE p \in Dated : \A q \in Dated : p <= q

\* the error getHistoricalPrice(time) ends with, for the samples stored
ErrorFor(time) ==
    IF Dated = {} THEN NoValidPricePeriods
    ELSE IF time < Instant(FirstDated) THEN BeforeFirstPricePeriod
    ELSE "none"

\* C36: the adapters differ in the tie-break only.  On the same clock value,
\* minTimeBetweenUpdates and fetch outcome either adapter skips, fetches,
\* commits or fails as the other does, and for the same stored samples and
\* time getHistoricalPrice fails with the same error in the same cases and
\* returns currentPrice when no sample is strictly after time
C36_AdaptersDifferInTieBreakOnly ==
    [][/\ \A i \in Inv : Reads(i) =>
            (pc'[i] = "idle"
                <=> (lastUpdateTime # Null
                        /\ lastUpdateTime + minTimeBetweenUpdates > TimeRead(i)))
       /\ \A r \in Responses(adapter) : Rejected(r) <=> Refused(r)
       /\ \A i \in Inv : (pc[i] = "getJson" /\ pc'[i] = "idle") =>
            IF last'.outcome = "stored"
            THEN ~Refused([kind |-> "array", items |-> last'.items])
                    /\ lastUpdateTime' = currentTime[i]
            ELSE UNCHANGED feed
       /\ (ret = NoRet /\ ret'.op = "getHistoricalPrice") =>
            /\ ret'.err = ErrorFor(ret'.time)
            /\ (ret'.err = "none" /\ \A p \in Dated : Instant(p) <= ret'.time)
                => ret'.price = currentPrice]_vars

====
